---------------------------- MODULE Spec2Model ----------------------------
(***************************************************************************)
(* A model of CookiePLMonster/ModUtils: the byte-pattern scanner           *)
(* (Patterns.h / Patterns.cpp), the scoped protection guard                *)
(* (ScopedUnprotect.hpp), the trampoline allocator (Trampoline.h) and the  *)
(* relative displacements of MemoryMgr.h.                                  *)
(*                                                                         *)
(* Each component has its own specification over its own variables; the    *)
(* variables of the other components stay at their idle values.            *)
(*   SpecCompile  TransformPattern on signature strings                    *)
(*   SpecScan     the scan of a pattern object over one segment            *)
(*   SpecCalls    count, get, get_one in the builds without the hint cache *)
(*   SpecHints    pattern objects in the builds with the hint cache        *)
(*   SpecProt     ScopedUnprotect guards over a module image               *)
(*   SpecTramp    Trampoline::MakeTrampoline and slot allocation           *)
(*   SpecOffsets  WriteOffsetValue, InjectHook and the reads of them       *)
(***************************************************************************)
EXTENDS Integers, Sequences, FiniteSets, TLC

VARIABLES
    \* ---- TransformPattern (Patterns.cpp) ----
    cTokens,      \* the tokens of the signature string being compiled
    cState,       \* "pending" | "compiled" | "scanned"
    cBytes,       \* data  (pattern_string)
    cMask,        \* mask  (pattern_string)
    cBuf,         \* the buffer the compiled pattern was scanned over
    cMatches,     \* the matches of that scan
    \* ---- pattern objects (Patterns.h / Patterns.cpp) ----
    mem,          \* process memory: address -> byte
    hints,        \* getHints(): the multimap, as pairs <<hash, address>> in insertion order
    pat,          \* the live basic_pattern objects
    ret,          \* what the last call on a pattern object did
    build,        \* the preprocessor configuration of the build
    \* ---- ScopedUnprotect (ScopedUnprotect.hpp) ----
    image,        \* the module: its section headers and SizeOfImage
    pages,        \* page -> [State, Type, Protect]
    guards,       \* guard id -> [live, m_regionsToReprotect]
    pages0,       \* the attributes of every page before the first guard
    everGuard,    \* a guard was created that changed several regions while
                  \* another guard was holding regions
    \* ---- Trampoline (Trampoline.h) ----
    regions,      \* the address space as VirtualQuery reports it
    blocks,       \* the Trampoline objects, ms_first first
    req,          \* the last MakeTrampoline request and what it returned
    slot,         \* the last slot handed out by Jump / Pointer
    \* ---- relative displacements (MemoryMgr.h) ----
    patched       \* the displacement last written, and what was read from it

compVars  == <<cTokens, cState, cBytes, cMask, cBuf, cMatches>>
patVars   == <<mem, hints, pat, ret, build>>
protVars  == <<image, pages, guards, pages0, everGuard>>
trampVars == <<regions, blocks, req, slot>>
memVars   == <<patched>>
vars      == <<compVars, patVars, protVars, trampVars, memVars>>

-----------------------------------------------------------------------------
(* Small helpers *)

Max(S) == CHOOSE x \in S : \A y \in S : y <= x
Min(S) == CHOOSE x \in S : \A y \in S : x <= y

RECURSIVE SeqsUpTo(_, _)
\* every sequence over S of length 0..n
SeqsUpTo(S, n) ==
    IF n = 0 THEN {<<>>}
    ELSE LET shorter == SeqsUpTo(S, n - 1)
         IN  shorter \cup {Append(s, x) : s \in {t \in shorter : Len(t) = n - 1}, x \in S}

-----------------------------------------------------------------------------
(* Signature strings.  A string is a sequence of one-character strings.    *)

MaxTokens == 3

\* the tokens signature strings are built from: hex pairs in both cases,
\* both wildcard spellings, a lone digit and an unrecognised character
Tokens ==
    { <<"5","5">>, <<"8","b">>, <<"E","C">>, <<"?">>, <<"?","?">>, <<"9">>, <<"x">> }

RECURSIVE Join(_)
\* the tokens separated by single spaces
Join(toks) ==
    IF toks = <<>> THEN <<>>
    ELSE IF Len(toks) = 1 THEN toks[1]
    ELSE toks[1] \o <<" ">> \o Join(Tail(toks))

\* the two signatures of the 5-byte scenario
SigDoubleQ == << <<"5","5">>, <<"8","B">>, <<"E","C">>, <<"?","?">>, <<"8","3">> >>
SigSingleQ == << <<"5","5">>, <<"8","B">>, <<"E","C">>, <<"?">>, <<"8","3">> >>

TokenLists == SeqsUpTo(Tokens, MaxTokens) \cup {SigDoubleQ, SigSingleQ}

UpperHex == <<"A","B","C","D","E","F">>
LowerHex == <<"a","b","c","d","e","f">>
Digits   == <<"0","1","2","3","4","5","6","7","8","9">>

InSeq(ch, s) == \E i \in 1..Len(s) : s[i] = ch
IndexIn(ch, s) == CHOOSE i \in 1..Len(s) : s[i] = ch

IsHexDigit(ch) == InSeq(ch, Digits) \/ InSeq(ch, UpperHex) \/ InSeq(ch, LowerHex)

\* the lambda tol of TransformPattern, on the characters it is called with
tol(ch) ==
    IF InSeq(ch, UpperHex) THEN IndexIn(ch, UpperHex) - 1 + 10
    ELSE IF InSeq(ch, LowerHex) THEN IndexIn(ch, LowerHex) - 1 + 10
    ELSE IndexIn(ch, Digits) - 1

RECURSIVE TransformFrom(_, _, _, _, _, _)
\* the loop of TransformPattern from character i on
TransformFrom(pattern, i, data, mask, tempDigit, tempFlag) ==
    IF i > Len(pattern) THEN [data |-> data, mask |-> mask]
    ELSE LET ch == pattern[i] IN
         IF ch = " " THEN
            TransformFrom(pattern, i + 1, data, mask, tempDigit, tempFlag)
         ELSE IF ch = "?" THEN
            TransformFrom(pattern, i + 1, Append(data, 0), Append(mask, 0),
                          tempDigit, tempFlag)
         ELSE IF IsHexDigit(ch) THEN
            IF ~tempFlag THEN
               TransformFrom(pattern, i + 1, data, mask, (tol(ch) * 16) % 256, TRUE)
            ELSE
               \* tempDigit |= thisDigit: the low nibble of tempDigit is zero
               TransformFrom(pattern, i + 1, Append(data, tempDigit + tol(ch)),
                             Append(mask, 255), tempDigit + tol(ch), FALSE)
         ELSE
            TransformFrom(pattern, i + 1, data, mask, tempDigit, tempFlag)

TransformPattern(pattern) == TransformFrom(pattern, 1, <<>>, <<>>, 0, FALSE)

-----------------------------------------------------------------------------
(* The scan of basic_pattern_impl::EnsureMatches, as operators.  Pattern   *)
(* positions are 0-based as in the source; sequences are 1-based.          *)

RECURSIVE BitAnd(_, _, _)
\* a & b on the low n bits
BitAnd(a, b, n) ==
    IF n = 0 THEN 0
    ELSE 2 * BitAnd(a \div 2, b \div 2, n - 1) + (IF a % 2 = 1 /\ b % 2 = 1 THEN 1 ELSE 0)

\* ptr[j] & mask[j] on uint8_t
And8(a, m) == IF m = 255 THEN a ELSE IF m = 0 THEN 0 ELSE BitAnd(a, m, 8)

\* does the pattern match memory m at address a (the comparison of the scan
\* and of ConsiderHint)
MatchesAt(bytes, mask, m, a) ==
    \A k \in 1..Len(mask) : bytes[k] = And8(m[a + k - 1], mask[k])

\* m_mask.find_last_not_of(0xFF), with -1 for std::string::npos
LastWild(mask) ==
    LET S == {k \in 0..(Len(mask) - 1) : mask[k + 1] # 255}
    IN  IF S = {} THEN -1 ELSE Max(S)

\* a table filled with -1 whatever the mask, as for a pattern without wildcard
LastTableExact(bytes, mask, b) ==
    Max({k \in 0..(Len(mask) - 1) : bytes[k + 1] = b} \cup {-1})

\* Last[b] after the fill and the loop over the pattern
LastTable(bytes, mask, b) ==
    LET S == {k \in 0..(Len(mask) - 1) : bytes[k + 1] = b}
    IN  Max(S \cup {LastWild(mask)})

RECURSIVE CompareBack(_, _, _, _, _)
\* while((j >= 0) && pattern[j] == (ptr[j] & mask[j])) j--;
CompareBack(bytes, mask, m, i, j) ==
    IF j >= 0 /\ bytes[j + 1] = And8(m[i + j], mask[j + 1])
    THEN CompareBack(bytes, mask, m, i, j - 1)
    ELSE j

\* a shift that moves the window past itself whenever the table gives no
\* forward move, instead of moving it by one byte
ShiftWholeWindow(bytes, mask, m, i, j) ==
    LET d == j - Max({k \in 0..(Len(mask) - 1) : bytes[k + 1] = m[i + j]}
                     \cup {-1})
    IN  IF d > 1 THEN d ELSE Len(mask)

\* i += std::max(ptrdiff_t(1), j - Last[ ptr[j] ])
Shift(bytes, mask, m, i, j) ==
    LET d == j - LastTable(bytes, mask, m[i + j])
    IN  IF d > 1 THEN d ELSE 1

RECURSIVE ScanSteps(_, _, _, _, _, _, _, _)
\* at most n iterations of the inner for loop over one segment, from
\* position i; stop is the break of matchSuccess, which leaves this loop only
ScanSteps(bytes, mask, m, i, end, matches, maxCount, n) ==
    IF n = 0 \/ i > end THEN [i |-> i, matches |-> matches, stop |-> FALSE]
    ELSE LET j == CompareBack(bytes, mask, m, i, Len(mask) - 1) IN
         IF j < 0 THEN
            LET found == Append(matches, i) IN
            IF Len(found) = maxCount
            THEN [i |-> i, matches |-> found, stop |-> TRUE]
            ELSE ScanSteps(bytes, mask, m, i + 1, end, found, maxCount, n - 1)
         ELSE ScanSteps(bytes, mask, m, i + Shift(bytes, mask, m, i, j), end,
                        matches, maxCount, n - 1)

RECURSIVE ScanSegment(_, _, _, _, _, _, _)
\* the inner for loop over one segment, run sixteen iterations at a time
ScanSegment(bytes, mask, m, i, end, matches, maxCount) ==
    LET s == ScanSteps(bytes, mask, m, i, end, matches, maxCount, 16)
    IN  IF s.stop \/ s.i > end THEN s.matches
        ELSE ScanSegment(bytes, mask, m, s.i, end, s.matches, maxCount)

RECURSIVE ScanSegments(_, _, _, _, _, _, _)
\* the outer loop over m_scanSegments, from segment k
ScanSegments(bytes, mask, m, segs, k, matches, maxCount) ==
    IF k > Len(segs) THEN matches
    ELSE ScanSegments(bytes, mask, m, segs, k + 1,
                      ScanSegment(bytes, mask, m, segs[k][1],
                                  segs[k][2] - Len(mask), matches, maxCount),
                      maxCount)

-----------------------------------------------------------------------------
(* Pattern objects: basic_pattern<err_policy> over basic_pattern_impl.     *)

MemLen     == 4      \* bytes of scannable memory, addresses 0 .. MemLen-1
MaxPatLen  == 2      \* longest pattern the scanner is given
MaxCount   == 2      \* largest n passed to count(n) / count_hint(n)
HintMemLen == 3      \* bytes of memory in the hint-cache builds
MaxHints   == 2      \* entries the hint cache may hold before scans stop adding

\* EnsureMatches(UINT32_MAX): 4294967295 is beyond the model checker's
\* integers; it is written as the same 32 bits read as signed.  Like the
\* real value it never equals the size of a match vector.
UINT32_MAX == -1

Addresses == 0..(MemLen - 1)
MemBytes  == {0, 85}                 \* 0x00 and 0x55
Memories  == [Addresses -> MemBytes]

\* one pattern object is alive at a time; objects follow one another
PatIds  == {1}
Policies == {"assert_err_policy", "exception_err_policy"}

\* scan_segments: one segment [first, second), or two segments in either
\* address order that do not overlap
Segment(first, second) == <<first, second>>
Segs == {x \in (0..MemLen) \X (0..MemLen) : x[1] < x[2]}
SegmentLists ==
    {<<a>> : a \in Segs} \cup
    {sl \in {<<a, b>> : a \in Segs, b \in Segs} :
        sl[1][2] <= sl[2][1] \/ sl[2][2] <= sl[1][1]}

\* the (byte, mask) pairs patterns are made of: exact 0x00, exact 0x55, wildcard
PatElems == {<<0, 255>>, <<85, 255>>, <<0, 0>>}
PatSeqs  == SeqsUpTo(PatElems, MaxPatLen)
BytesOf(ps) == [k \in 1..Len(ps) |-> ps[k][1]]
MaskOf(ps)  == [k \in 1..Len(ps) |-> ps[k][2]]

\* the signature string that spells a pattern: "00", "55" and "?" tokens
TokenOf(e) == IF e[2] = 0 THEN <<"?">> ELSE IF e[1] = 0 THEN <<"0","0">> ELSE <<"5","5">>
SigOf(ps)  == Join([k \in 1..Len(ps) |-> TokenOf(ps[k])])

\* fnv_1()(pattern): a 64-bit hash of the signature string.  No two of the
\* strings of this model collide, so the hash is represented by the string.
fnv_1(sig) == <<"fnv_1", sig>>
\* uint64_t m_hash = 0
ZeroHash == <<"0">>

Builds ==
    [USE_HINTS : BOOLEAN, CAN_SERIALIZE_HINTS : BOOLEAN,
     NDEBUG : BOOLEAN, ENABLE_EXCEPTIONS : BOOLEAN]

NoPattern ==
    [live |-> FALSE, m_bytes |-> <<>>, m_mask |-> <<>>, m_hash |-> ZeroHash,
     m_matches |-> <<>>, m_scanSegments |-> <<>>, m_matched |-> FALSE,
     err_policy |-> "assert_err_policy",
     \* history: how the match set was resolved ("hints" or "scan") and with
     \* which limit; whether every address matched memory when it was
     \* resolved; whether hints were found at construction and none matched;
     \* and for such an object what the scan alone would have produced
     by |-> "none", limit |-> 0, sound |-> TRUE, stale |-> FALSE, ref |-> <<>>]

\* what the last call did, for the calls that hand something to the caller
\* or may fail (the others leave NoRet): status is "returned", "thrown"
\* (txn_exception), "abort" (assertion failure) or "fault" (access
\* violation); value is what it returned, if anything; ok is the argument
\* given to err_policy::count; ub tells that it read past the end of m_matches
NoRet ==
    [op |-> "none", p |-> 0, arg |-> 0, status |-> "none", value |-> <<>>,
     ok |-> TRUE, ub |-> FALSE]
Ret(op, p, arg, status, value) ==
    [op |-> op, p |-> p, arg |-> arg, status |-> status, value |-> value,
     ok |-> TRUE, ub |-> FALSE]

\* the process is still running: no assertion failure and no fault so far
Running == ret.status \notin {"abort", "fault"}

\* getHints().equal_range(hash), as the addresses in iteration order
HintRange(h) ==
    LET sel == SelectSeq(hints, LAMBDA e : e[1] = h)
    IN  [k \in 1..Len(sel) |-> sel[k][2]]

\* the pattern is found at address a of memory m, all of it inside m
FoundAt(bytes, mask, m, a) ==
    /\ \A k \in 1..Len(mask) : (a + k - 1) \in DOMAIN m
    /\ MatchesAt(bytes, mask, m, a)

\* the comparison loop of ConsiderHint reads a byte outside memory before it
\* meets a byte that differs
HintFaults(bytes, mask, m, a) ==
    \E k \in 1..Len(mask) :
        /\ (a + k - 1) \notin DOMAIN m
        /\ \A i \in 1..(k - 1) : bytes[i] = And8(m[a + i - 1], mask[i])

\* ConsiderHint(offset): is the hinted address added to m_matches
ConsiderHint(bytes, mask, m, offset) ==
    IF build.CAN_SERIALIZE_HINTS THEN FoundAt(bytes, mask, m, offset) ELSE TRUE

\* basic_pattern_impl::Initialize, after the hash and TransformPattern:
\* inMain is the test m_rangeStart == GetModuleHandle(nullptr), which only
\* the build with PATTERNS_CAN_SERIALIZE_HINTS makes
Initialize(segs, sig, pol, inMain) ==
    LET t      == TransformPattern(sig)
        h      == IF build.USE_HINTS THEN fnv_1(sig) ELSE ZeroHash
        look   == build.USE_HINTS /\ (build.CAN_SERIALIZE_HINTS => inMain)
        range  == IF look THEN HintRange(h) ELSE <<>>
        taken  == SelectSeq(range, LAMBDA a : ConsiderHint(t.data, t.mask, mem, a))
    IN  [live |-> TRUE, m_bytes |-> t.data, m_mask |-> t.mask, m_hash |-> h,
         m_matches |-> taken, m_scanSegments |-> segs, m_matched |-> taken # <<>>,
         err_policy |-> pol,
         by |-> IF taken # <<>> THEN "hints" ELSE "none", limit |-> 0,
         sound |-> \A k \in 1..Len(taken) : FoundAt(t.data, t.mask, mem, taken[k]),
         stale |-> /\ range # <<>>
                   /\ \A k \in 1..Len(range) : ~FoundAt(t.data, t.mask, mem, range[k]),
         ref |-> <<>>]

\* an EnsureMatches without the m_matched guard: every call scans again and
\* appends what it finds
EnsureMatchesAgain(o, maxCount) ==
    [o EXCEPT !.m_matches = ScanSegments(o.m_bytes, o.m_mask, mem, o.m_scanSegments,
                                         1, o.m_matches, maxCount),
              !.m_matched = TRUE, !.by = "scan", !.limit = maxCount]

\* basic_pattern_impl::EnsureMatches(maxCount) on object o: the object after it
EnsureMatches(o, maxCount) ==
    IF o.m_matched THEN o
    ELSE LET found == ScanSegments(o.m_bytes, o.m_mask, mem, o.m_scanSegments,
                                   1, o.m_matches, maxCount)
         IN  [o EXCEPT !.m_matches = found,
                       !.m_matched = TRUE, !.by = "scan", !.limit = maxCount,
                       !.sound = \A k \in 1..Len(found) :
                                     FoundAt(o.m_bytes, o.m_mask, mem, found[k]),
                       !.ref = IF o.stale
                               THEN ScanSegments(o.m_bytes, o.m_mask, mem,
                                                 o.m_scanSegments, 1, <<>>, maxCount)
                               ELSE <<>>]

\* the getHints().emplace(m_hash, address) calls of matchSuccess during that scan
HintsAfter(o, maxCount) ==
    IF o.m_matched \/ ~build.USE_HINTS THEN hints
    ELSE LET ms == EnsureMatches(o, maxCount).m_matches
         IN  hints \o [k \in 1..(Len(ms) - Len(o.m_matches)) |->
                          <<o.m_hash, ms[Len(o.m_matches) + k]>>]

\* err_policy::count(countMatches): "ok", "abort" (assertion failure) or
\* "thrown" (txn_exception)
PolicyCount(pol, countMatches) ==
    IF pol = "exception_err_policy" /\ build.ENABLE_EXCEPTIONS
    THEN IF countMatches THEN "ok" ELSE "thrown"
    ELSE IF countMatches \/ build.NDEBUG THEN "ok" ELSE "abort"

idlePat == UNCHANGED <<compVars, protVars, trampVars, memVars>>

-----------------------------------------------------------------------------
(* The operations on pattern objects *)

\* basic_pattern(scan_segments, std::string_view): the string constructors
Construct(p, segs, sig, pol, inMain) ==
    /\ Running
    /\ ~pat[p].live
    /\ LET t == TransformPattern(sig)
           range == IF build.USE_HINTS /\ build.CAN_SERIALIZE_HINTS /\ inMain
                    THEN HintRange(fnv_1(sig)) ELSE <<>>
       IN  IF \E k \in 1..Len(range) : HintFaults(t.data, t.mask, mem, range[k])
           THEN /\ ret' = Ret("construct", p, 0, "fault", <<>>)
                /\ pat' = pat
           ELSE /\ ret' = NoRet
                /\ pat' = [pat EXCEPT ![p] = Initialize(segs, sig, pol, inMain)]
    /\ UNCHANGED <<mem, hints, build>>
    /\ idlePat

\* basic_pattern(scan_segments, pattern_string_view bytes, pattern_string_view mask)
ConstructPretransformed(p, segs, bytes, mask, pol) ==
    /\ Running
    /\ ~pat[p].live
    /\ Len(bytes) = Len(mask)
    /\ pat' = [pat EXCEPT ![p] =
                 [NoPattern EXCEPT !.live = TRUE, !.m_bytes = bytes, !.m_mask = mask,
                                   !.m_scanSegments = segs, !.err_policy = pol]]
    /\ ret' = NoRet
    /\ UNCHANGED <<mem, hints, build>>
    /\ idlePat

\* the pattern object goes out of scope
Destroy(p) ==
    /\ Running
    /\ pat[p].live
    /\ pat' = [pat EXCEPT ![p] = NoPattern]
    /\ ret' = NoRet
    /\ UNCHANGED <<mem, hints, build>>
    /\ idlePat

\* basic_pattern::count(expected)
Count(p, expected) ==
    /\ Running
    /\ pat[p].live
    /\ LET o == EnsureMatches(pat[p], expected)
           st == PolicyCount(o.err_policy, Len(o.m_matches) = expected)
       IN  /\ pat' = [pat EXCEPT ![p] = o]
           /\ hints' = HintsAfter(pat[p], expected)
           /\ ret' = [Ret("count", p, expected, IF st = "ok" THEN "returned" ELSE st, <<>>)
                        EXCEPT !.ok = (Len(o.m_matches) = expected)]
    /\ UNCHANGED <<mem, build>>
    /\ idlePat

\* basic_pattern::count_hint(expected)
CountHint(p, expected) ==
    /\ Running
    /\ pat[p].live
    /\ pat' = [pat EXCEPT ![p] = EnsureMatches(pat[p], expected)]
    /\ hints' = HintsAfter(pat[p], expected)
    /\ ret' = NoRet
    /\ UNCHANGED <<mem, build>>
    /\ idlePat

\* basic_pattern::clear()
Clear(p) ==
    /\ Running
    /\ pat[p].live
    /\ pat' = [pat EXCEPT ![p].m_matches = <<>>, ![p].m_matched = FALSE,
                          ![p].by = "none", ![p].limit = 0, ![p].sound = TRUE,
                          ![p].stale = FALSE, ![p].ref = <<>>]
    /\ ret' = NoRet
    /\ UNCHANGED <<mem, hints, build>>
    /\ idlePat

\* basic_pattern::size()
Size(p) ==
    /\ Running
    /\ pat[p].live
    /\ LET o == EnsureMatches(pat[p], UINT32_MAX)
       IN  /\ pat' = [pat EXCEPT ![p] = o]
           /\ ret' = Ret("size", p, 0, "returned", <<Len(o.m_matches)>>)
    /\ hints' = HintsAfter(pat[p], UINT32_MAX)
    /\ UNCHANGED <<mem, build>>
    /\ idlePat

\* _get_internal(index) is m_matches[index] with no bounds check: past the
\* end the read is undefined, and either faults or yields some pointer
GetInternal(op, p, arg, o, index, r) ==
    IF index < Len(o.m_matches)
    THEN r = Ret(op, p, arg, "returned", <<o.m_matches[index + 1]>>)
    ELSE \/ r = [Ret(op, p, arg, "fault", <<>>) EXCEPT !.ub = TRUE]
         \/ r = [Ret(op, p, arg, "returned", <<"junk">>) EXCEPT !.ub = TRUE]

\* basic_pattern::get(index)
Get(p, index) ==
    /\ Running
    /\ pat[p].live
    /\ LET o == EnsureMatches(pat[p], UINT32_MAX)
       IN  /\ pat' = [pat EXCEPT ![p] = o]
           /\ GetInternal("get", p, index, o, index, ret')
    /\ hints' = HintsAfter(pat[p], UINT32_MAX)
    /\ UNCHANGED <<mem, build>>
    /\ idlePat

\* basic_pattern::get_one(): count(1)._get_internal(0)
GetOne(p) ==
    /\ Running
    /\ pat[p].live
    /\ LET o == EnsureMatches(pat[p], 1)
           st == PolicyCount(o.err_policy, Len(o.m_matches) = 1)
       IN  /\ pat' = [pat EXCEPT ![p] = o]
           /\ IF st = "ok"
              THEN GetInternal("get_one", p, 0, o, 0, ret')
              ELSE ret' = [Ret("get_one", p, 0, st, <<>>) EXCEPT !.ok = FALSE]
    /\ hints' = HintsAfter(pat[p], 1)
    /\ UNCHANGED <<mem, build>>
    /\ idlePat

-----------------------------------------------------------------------------
(* ScopedUnprotect.  Addresses are byte offsets from hInstance; a page is  *)
(* PageSize bytes and the address space VirtualQuery answers for is        *)
(* NumPages pages.  A protection is modelled by its name: the PAGE_*       *)
(* constants the code tests are single bits, so a mask test is membership. *)

NumPages  == 3
PageSize  == 2
MaxGuards == 2

Pages        == 0..(NumPages - 1)
AddressLimit == NumPages * PageSize
PageOf(a)    == a \div PageSize

\* PAGE_EXECUTE_READWRITE|PAGE_EXECUTE_WRITECOPY|PAGE_READWRITE|PAGE_WRITECOPY
Writable   == {"PAGE_EXECUTE_READWRITE", "PAGE_EXECUTE_WRITECOPY",
               "PAGE_READWRITE", "PAGE_WRITECOPY"}
\* a test of wasExecutable that knows PAGE_EXECUTE only
ExecutableOnly == {"PAGE_EXECUTE"}
\* PAGE_EXECUTE|PAGE_EXECUTE_READ
Executable == {"PAGE_EXECUTE", "PAGE_EXECUTE_READ"}

RECURSIVE RegionEnd(_, _)
\* the first page after p whose attributes differ from those of p
RegionEnd(pgs, p) ==
    IF p + 1 < NumPages /\ pgs[p + 1] = pgs[p] THEN RegionEnd(pgs, p + 1)
    ELSE p + 1

\* VirtualQuery: the region of identical attributes that starts at the page
\* of the address; it fails outside the address space
VirtualQuery(pgs, addr) ==
    IF addr \notin 0..(AddressLimit - 1) THEN [ok |-> FALSE]
    ELSE LET p == PageOf(addr)
         IN  [ok |-> TRUE,
              BaseAddress |-> p * PageSize,
              RegionSize  |-> (RegionEnd(pgs, p) - p) * PageSize,
              State   |-> pgs[p].State,
              Type    |-> pgs[p].Type,
              Protect |-> pgs[p].Protect]

PagesIn(addr, size) == PageOf(addr)..PageOf(addr + size - 1)

\* VirtualProtect succeeds on committed pages of the address space
CanProtect(pgs, addr, size) ==
    \A p \in PagesIn(addr, size) : p \in Pages /\ pgs[p].State = "MEM_COMMIT"

SetProtect(pgs, addr, size, prot) ==
    [p \in Pages |-> IF p \in PagesIn(addr, size)
                     THEN [pgs[p] EXCEPT !.Protect = prot] ELSE pgs[p]]

ReprotectRegion(Address, size, Protect) ==
    [Address |-> Address, Size |-> size, Protect |-> Protect]

RECURSIVE UnprotectRange(_, _, _, _, _, _)
\* the while loop of UnprotectRange from the current BaseAddress and
\* QueriedSize; denied holds the pages the system refuses to make writable
UnprotectRange(pgs, list, BaseAddress, size, QueriedSize, denied) ==
    IF QueriedSize >= size THEN [pages |-> pgs, list |-> list]
    ELSE LET MemoryInf == VirtualQuery(pgs, BaseAddress) IN
         IF ~MemoryInf.ok THEN [pages |-> pgs, list |-> list]
         ELSE LET wasExecutable == MemoryInf.Protect \in Executable
                  changed ==
                     /\ MemoryInf.State = "MEM_COMMIT"
                     /\ MemoryInf.Type = "MEM_IMAGE"
                     /\ MemoryInf.Protect \notin Writable
                     /\ CanProtect(pgs, MemoryInf.BaseAddress, MemoryInf.RegionSize)
                     /\ PagesIn(MemoryInf.BaseAddress, MemoryInf.RegionSize)
                           \cap denied = {}
              IN  UnprotectRange(
                     IF changed
                     THEN SetProtect(pgs, MemoryInf.BaseAddress, MemoryInf.RegionSize,
                                     IF wasExecutable THEN "PAGE_EXECUTE_READWRITE"
                                     ELSE "PAGE_READWRITE")
                     ELSE pgs,
                     IF changed
                     THEN <<ReprotectRegion(MemoryInf.BaseAddress,
                                            MemoryInf.RegionSize,
                                            MemoryInf.Protect)>> \o list
                     ELSE list,
                     BaseAddress + MemoryInf.RegionSize, size,
                     QueriedSize + MemoryInf.RegionSize, denied)

\* a restore that puts the saved protection back on the first page of the
\* region only
ReprotectFirstPage(pgs, r) ==
    IF CanProtect(pgs, r.Address, r.Size)
    THEN SetProtect(pgs, r.Address, 1, r.Protect) ELSE pgs

\* ~ReprotectRegion: VirtualProtect(Address, Size, Protect, &dwOldProtect)
Reprotect(pgs, r) ==
    IF CanProtect(pgs, r.Address, r.Size)
    THEN SetProtect(pgs, r.Address, r.Size, r.Protect) ELSE pgs

RECURSIVE ReprotectAll(_, _)
\* the forward_list destroys its elements from the front
ReprotectAll(pgs, list) ==
    IF list = <<>> THEN pgs
    ELSE ReprotectAll(Reprotect(pgs, Head(list)), Tail(list))

RECURSIVE SectionFrom(_, _, _, _, _, _, _)
\* the for loop of Section over the section headers, from header i; range
\* collects the pages of the sections UnprotectRange was called for
SectionFrom(img, pgs, list, name, i, foundSection, denied) ==
    IF i > Len(img.sections)
    THEN [pages |-> pgs, list |-> list, foundSection |-> foundSection,
          range |-> {}]
    ELSE IF img.sections[i].Name = name
    THEN LET u == UnprotectRange(pgs, list, img.sections[i].VirtualAddress,
                                 img.sections[i].VirtualSize, 0, denied)
             rest == SectionFrom(img, u.pages, u.list, name, i + 1, TRUE, denied)
         IN  [rest EXCEPT !.range = @ \cup (Pages \cap
                                      PagesIn(img.sections[i].VirtualAddress,
                                              img.sections[i].VirtualSize))]
    ELSE SectionFrom(img, pgs, list, name, i + 1, foundSection, denied)

SectionResult(img, pgs, name, denied) ==
    SectionFrom(img, pgs, <<>>, name, 1, FALSE, denied)

FullModuleResult(img, pgs, denied) ==
    LET u == UnprotectRange(pgs, <<>>, 0, img.SizeOfImage, 0, denied)
    IN  [pages |-> u.pages, list |-> u.list,
         range |-> Pages \cap PagesIn(0, img.SizeOfImage)]

\* result = FullModule(hInstance) runs FullModule first and then destroys
\* the list result held
SectionOrFullModuleResult(img, pgs, name, denied) ==
    LET result == SectionResult(img, pgs, name, denied) IN
    IF result.foundSection
    THEN [pages |-> result.pages, list |-> result.list, range |-> result.range]
    ELSE LET full == FullModuleResult(img, result.pages, denied)
         IN  [full EXCEPT !.pages = ReprotectAll(full.pages, result.list)]

\* a guard: its list, and as history the pages of the section or module it
\* was made for (range), kept where image.ranges asks for it
NoGuard == [live |-> FALSE, m_regionsToReprotect |-> <<>>, range |-> {}]
Guard(list) == [NoGuard EXCEPT !.live = TRUE, !.m_regionsToReprotect = list]
Guards == 1..MaxGuards
AllDestroyed == \A g \in Guards : ~guards[g].live

\* the new guard changed several regions while another guard was holding
\* regions of its own
Nested(list) ==
    /\ Len(list) >= 2
    /\ \E g \in Guards : guards[g].m_regionsToReprotect # <<>>

idleProt == UNCHANGED <<compVars, patVars, trampVars, memVars>>

\* the guard a factory returns takes the place g
Created(g, r) ==
    /\ pages' = r.pages
    /\ guards' = [guards EXCEPT ![g] = [Guard(r.list) EXCEPT !.range =
                                        IF image.ranges THEN r.range ELSE {}]]
    /\ everGuard' = (everGuard \/ Nested(r.list))

Section(g, name, denied) ==
    /\ ~guards[g].live
    /\ Created(g, SectionResult(image, pages, name, denied))
    /\ UNCHANGED <<image, pages0>>
    /\ idleProt

FullModule(g, denied) ==
    /\ ~guards[g].live
    /\ Created(g, FullModuleResult(image, pages, denied))
    /\ UNCHANGED <<image, pages0>>
    /\ idleProt

SectionOrFullModule(g, name, denied) ==
    /\ ~guards[g].live
    /\ Created(g, SectionOrFullModuleResult(image, pages, name, denied))
    /\ UNCHANGED <<image, pages0>>
    /\ idleProt

\* ~ScopedUnprotect
DestroyGuard(g) ==
    /\ guards[g].live
    /\ pages' = ReprotectAll(pages, guards[g].m_regionsToReprotect)
    /\ guards' = [guards EXCEPT ![g] = NoGuard]
    /\ UNCHANGED <<image, pages0, everGuard>>
    /\ idleProt

\* an assignment that copies h's list and leaves it with h as well
MoveAssignCopy(g, h) ==
    /\ g # h /\ guards[g].live /\ guards[h].live
    /\ pages' = ReprotectAll(pages, guards[g].m_regionsToReprotect)
    /\ guards' = [guards EXCEPT ![g] = guards[h]]
    /\ UNCHANGED <<image, pages0, everGuard>>
    /\ idleProt

\* g = std::move(h): g's list is destroyed and h's list moves to g
MoveAssign(g, h) ==
    /\ g # h /\ guards[g].live /\ guards[h].live
    /\ pages' = ReprotectAll(pages, guards[g].m_regionsToReprotect)
    /\ guards' = [guards EXCEPT ![g] = guards[h], ![h] = Guard(<<>>)]
    /\ UNCHANGED <<image, pages0, everGuard>>
    /\ idleProt

-----------------------------------------------------------------------------
(* Trampoline.  A 64-bit address is a pair [hi, lo]: hi counts allocation  *)
(* granules and lo is the byte offset in the granule, so that the 2 GiB    *)
(* window keeps its real size.  The memory map is a sequence of regions    *)
(* [Base, Size, State] in granules, free space merged into one region as   *)
(* VirtualQuery reports it.                                                *)

dwAllocationGranularity == 65536
SINGLE_TRAMPOLINE_SIZE  == 14
sizeofTrampoline        == 24
MaxRequests == 2
MaxSlots    == 2

Address(hi, lo) == [hi |-> hi, lo |-> lo]
ToAddress(n) == Address(n \div dwAllocationGranularity, n % dwAllocationGranularity)
INT32_MIN == Address(-32768, 0)
INT32_MAX == Address(32767, 65535)
nullptr   == Address(0, 0)

LessEq(a, b) == a.hi < b.hi \/ (a.hi = b.hi /\ a.lo <= b.lo)
Plus(a, n) ==
    Address(a.hi + (a.lo + n) \div dwAllocationGranularity,
            (a.lo + n) % dwAllocationGranularity)
Sum(a, b) ==
    Address(a.hi + b.hi + (a.lo + b.lo) \div dwAllocationGranularity,
            (a.lo + b.lo) % dwAllocationGranularity)
Minus(a, b) ==
    Address(a.hi - b.hi + (a.lo - b.lo) \div dwAllocationGranularity,
            (a.lo - b.lo) % dwAllocationGranularity)

\* (n + align - 1) & ~(align - 1), align a power of two
AlignUp(n, align) == ((n + align - 1) \div align) * align

IsAddressFeasible(trampolineOffset, addr) ==
    LET diff == Minus(trampolineOffset, addr)
    IN  LessEq(INT32_MIN, diff) /\ LessEq(diff, INT32_MAX)

\* addr is unsigned, so the first branch is the one taken
RoundDown(addr, granularity) ==
    Address(addr.hi, (addr.lo \div granularity) * granularity)

Region(Base, size, State) == [Base |-> Base, Size |-> size, State |-> State]
RegionAt(regs, g) ==
    {i \in 1..Len(regs) : regs[i].Base <= g /\ g < regs[i].Base + regs[i].Size}

\* VirtualQuery on the memory map: the region from the page of the address
\* to the end of the region it lies in; 0 above the address space
QueryRegion(regs, a) ==
    IF RegionAt(regs, a.hi) = {} THEN [ok |-> FALSE]
    ELSE LET r == regs[CHOOSE i \in RegionAt(regs, a.hi) : TRUE]
             BaseAddress == Address(a.hi, (a.lo \div 4096) * 4096)
         IN  [ok |-> TRUE, BaseAddress |-> BaseAddress, State |-> r.State,
              RegionSize |-> Minus(Address(r.Base + r.Size, 0), BaseAddress)]

\* VirtualAlloc(address, size, MEM_COMMIT | MEM_RESERVE, ...) at a granule
\* boundary: it needs the whole range free
CanAlloc(regs, a, size) ==
    \E i \in RegionAt(regs, a.hi) :
        /\ regs[i].State = "MEM_FREE"
        /\ a.hi + (size \div dwAllocationGranularity) <= regs[i].Base + regs[i].Size

VirtualAlloc(regs, a, size) ==
    LET i == CHOOSE k \in RegionAt(regs, a.hi) : TRUE
        r == regs[i]
        n == size \div dwAllocationGranularity
        below == IF r.Base < a.hi
                 THEN <<Region(r.Base, a.hi - r.Base, "MEM_FREE")>> ELSE <<>>
        above == IF a.hi + n < r.Base + r.Size
                 THEN <<Region(a.hi + n, r.Base + r.Size - a.hi - n, "MEM_FREE")>>
                 ELSE <<>>
    IN  SubSeq(regs, 1, i - 1) \o below \o <<Region(a.hi, n, "MEM_COMMIT")>>
           \o above \o SubSeq(regs, i + 1, Len(regs))

RECURSIVE FindFrom(_, _, _, _)
\* the while (true) loop of FindAndAllocateMem from curAddr; size is
\* already aligned up to the allocation granularity
FindFrom(regs, addr, size, curAddr) ==
    LET MemoryInf == QueryRegion(regs, curAddr) IN
    IF ~MemoryInf.ok THEN [mem |-> nullptr, regions |-> regs]
    ELSE LET alignedAddr ==
                 Address(IF MemoryInf.BaseAddress.lo = 0
                         THEN MemoryInf.BaseAddress.hi
                         ELSE MemoryInf.BaseAddress.hi + 1, 0)
             alignedAddrEnd ==
                 RoundDown(Minus(Sum(MemoryInf.BaseAddress, MemoryInf.RegionSize),
                                 ToAddress(size)),
                           dwAllocationGranularity)
             fits == MemoryInf.State = "MEM_FREE"
                        /\ LessEq(ToAddress(size), MemoryInf.RegionSize)
             next == Sum(curAddr, MemoryInf.RegionSize)
         IN  IF fits /\ IsAddressFeasible(alignedAddr, addr)
                  /\ CanAlloc(regs, alignedAddr, size)
             THEN [mem |-> alignedAddr,
                   regions |-> VirtualAlloc(regs, alignedAddr, size)]
             ELSE IF fits /\ ~IsAddressFeasible(alignedAddr, addr)
                       /\ IsAddressFeasible(alignedAddrEnd, addr)
                       /\ CanAlloc(regs, alignedAddrEnd, size)
             THEN [mem |-> alignedAddrEnd,
                   regions |-> VirtualAlloc(regs, alignedAddrEnd, size)]
             ELSE FindFrom(regs, addr, size, next)

FindAndAllocateMem(regs, addr, size) ==
    LET maxRelJump == INT32_MAX
        curAddr == IF ~LessEq(addr, maxRelJump) THEN Minus(addr, maxRelJump)
                   ELSE Address(0, 0)
        aligned == AlignUp(size, dwAllocationGranularity)
    IN  [size |-> aligned] @@ FindFrom(regs, addr, aligned, curAddr)

\* explicit Trampoline(void* memory, size_t size)
Trampoline(memory, size) == [m_pageMemory |-> memory, m_spaceLeft |-> size]

\* a feasibility test that looks at the space left and not at the window
FeasibleBySpace(t, addr, size, align) ==
    LET offset == AlignUp(t.m_pageMemory.lo, align) - t.m_pageMemory.lo
    IN  t.m_spaceLeft >= offset /\ t.m_spaceLeft - offset >= size

\* a feasibility test that forgets the bytes std::align skips
FeasibleWithoutPadding(t, addr, size, align) ==
    IsAddressFeasible(t.m_pageMemory, addr) /\ t.m_spaceLeft >= size

FeasibleForAddresss(t, addr, size, align) ==
    LET pageMem == t.m_pageMemory
        offset == IF pageMem.lo % align # 0 THEN align - (pageMem.lo % align)
                  ELSE 0
    IN  /\ IsAddressFeasible(pageMem, addr)
        /\ t.m_spaceLeft >= offset /\ t.m_spaceLeft - offset >= size

\* an allocation that skips the padding without taking it from the space left
GetNewSpaceUnpadded(t, size, alignment) ==
    LET padding == AlignUp(t.m_pageMemory.lo, alignment) - t.m_pageMemory.lo
        space == Plus(t.m_pageMemory, padding)
    IN  IF t.m_spaceLeft < size \/ t.m_spaceLeft - size < padding
        THEN [space |-> nullptr, t |-> t]
        ELSE [space |-> space,
              t |-> Trampoline(Plus(space, size), t.m_spaceLeft - size)]

\* std::align and the bookkeeping of GetNewSpace
GetNewSpace(t, size, alignment) ==
    LET padding == AlignUp(t.m_pageMemory.lo, alignment) - t.m_pageMemory.lo
        space == Plus(t.m_pageMemory, padding)
    IN  IF t.m_spaceLeft < size \/ t.m_spaceLeft - size < padding
        THEN [space |-> nullptr, t |-> t]
        ELSE [space |-> space,
              t |-> Trampoline(Plus(space, size), t.m_spaceLeft - padding - size)]

NoReq  == [n |-> 0, status |-> "none"]
\* slot.taken is the history of the slots handed out: the block, counted
\* from the end of the list, the address, the size and the alignment
NoSlot == [n |-> 0, status |-> "none", taken |-> {}]
Alive  == req.status # "fault" /\ slot.status \notin {"abort", "fault"}

idleTramp == UNCHANGED <<compVars, patVars, protVars, memVars>>

\* MakeTrampoline(addr) and MakeTrampoline(addr, size, align).  When
\* FindAndAllocateMem returns nullptr the placement new is given a null
\* pointer, which is undefined: the constructor's write at address 0 faults,
\* or the build checks the pointer, constructs nothing and returns nullptr
MakeTrampoline(addr, size, align) ==
    /\ Alive /\ req.n < MaxRequests
    /\ \E i \in RegionAt(regions, addr.hi) : regions[i].State # "MEM_FREE"
    /\ LET feasible == {i \in 1..Len(blocks) :
                           FeasibleForAddresss(blocks[i], addr, size, align)}
           sizeToAlloc == size + AlignUp(sizeofTrampoline, align)
           found == FindAndAllocateMem(regions, addr, sizeToAlloc)
           made == [n |-> req.n + 1, addr |-> addr, size |-> size, align |-> align]
       IN  IF feasible # {}
           THEN /\ req' = made @@ [status |-> "ok", block |-> Min(feasible),
                                   fresh |-> FALSE]
                /\ UNCHANGED <<regions, blocks>>
           ELSE IF found.mem = nullptr
           THEN /\ \E outcome \in {"fault", "nullptr"} :
                      req' = made @@ [status |-> outcome]
                /\ UNCHANGED <<regions, blocks>>
           ELSE /\ req' = made @@ [status |-> "ok", block |-> 1, fresh |-> TRUE]
                /\ regions' = found.regions
                /\ blocks' = <<Trampoline(Plus(found.mem, sizeofTrampoline),
                                          found.size - sizeofTrampoline)>>
                                \o blocks
    /\ slot' = [n |-> slot.n, status |-> "none", taken |-> slot.taken]
    /\ idleTramp

\* a slot of the block the last MakeTrampoline returned
NewSlot(size, alignment, failure) ==
    /\ Alive /\ req.status = "ok" /\ slot.n < MaxSlots
    /\ LET got == GetNewSpace(blocks[req.block], size, alignment) IN
       IF got.space = nullptr
       THEN /\ slot' = [n |-> slot.n + 1, status |-> failure,
                        taken |-> slot.taken]
            /\ UNCHANGED blocks
       ELSE /\ slot' = [n |-> slot.n + 1, status |-> "ok", address |-> got.space,
                        first |-> req.fresh /\ slot.status = "none",
                        padded |-> got.space # blocks[req.block].m_pageMemory,
                        taken |-> slot.taken \cup
                           {[owner |-> Len(blocks) - req.block,
                             address |-> got.space, size |-> size,
                             align |-> alignment]}]
            /\ blocks' = [blocks EXCEPT ![req.block] = got.t]
    /\ UNCHANGED <<regions, req>>
    /\ idleTramp

\* Jump(func): CreateCodeTrampoline writes the jump into the new space, so
\* a null space is a write through a null pointer where assert is off
Jump(failure) ==
    /\ failure \in {"abort", "fault"}
    /\ NewSlot(SINGLE_TRAMPOLINE_SIZE, 1, failure)

\* Pointer<T>(align), sizeof(T) = size
Pointer(size, align, failure) ==
    /\ failure \in {"abort", "nullptr"}
    /\ NewSlot(size, align, failure)

-----------------------------------------------------------------------------
(* Relative displacements (MemoryMgr.h).  Addresses are the two-limb values *)
(* of the Trampoline section.  intptr_t is 64 bits wide in a _WIN64 build  *)
(* and 32 bits wide otherwise; the signed arithmetic of the 32-bit build   *)
(* wraps, as the conversion to int32_t does.  Memory is the one int32_t    *)
(* the last write stored.                                                  *)

\* static_cast<int32_t>(x): the low 32 bits, read as a signed value
int32_t(x) == Address(((x.hi + 32768) % 65536) - 32768, x.lo)

\* a value held in an intptr_t of the build
intptr_t(win64, x) == IF win64 THEN x ELSE int32_t(x)

\* a displacement that is the distance from the address itself
DisplacementFromAddress(win64, address, var, bytesAfterDisplacement) ==
    int32_t(intptr_t(win64, Minus(intptr_t(win64, var),
                                  intptr_t(win64, address))))

\* static_cast<int32_t>(srcAddr - dstAddr - (4 + bytesAfterDisplacement))
Displacement(win64, address, var, bytesAfterDisplacement) ==
    LET dstAddr == intptr_t(win64, address)
        srcAddr == intptr_t(win64, var)
    IN  int32_t(intptr_t(win64,
            Minus(Minus(srcAddr, dstAddr), ToAddress(4 + bytesAfterDisplacement))))

\* srcAddr + (4 + bytesAfterDisplacement) + *(int32_t*)srcAddr
Destination(win64, address, stored, bytesAfterDisplacement) ==
    LET srcAddr == intptr_t(win64, address)
    IN  intptr_t(win64, Sum(Plus(srcAddr, 4 + bytesAfterDisplacement), stored))

NoPatch(win64) == [WIN64 |-> win64, status |-> "none"]

idleMem == UNCHANGED <<compVars, patVars, protVars, trampVars>>

\* the int32_t at dstAddr after the write; call is the function the caller
\* used and address its argument
Stored(call, address, dstAddr, var, bytesAfterDisplacement) ==
    [WIN64 |-> patched.WIN64, status |-> "written", call |-> call,
     address |-> address, var |-> var, k |-> bytesAfterDisplacement,
     at |-> dstAddr,
     int32 |-> Displacement(patched.WIN64, dstAddr, var, bytesAfterDisplacement)]

\* the value the read stores in var (or func)
Loaded(call, bytesAfterDisplacement) ==
    [patched EXCEPT !.status = "read"] @@
    [read |-> call, rk |-> bytesAfterDisplacement,
     value |-> Destination(patched.WIN64, patched.at, patched.int32,
                           bytesAfterDisplacement)]

WriteOffsetValue(address, var, bytesAfterDisplacement) ==
    /\ patched' = Stored("WriteOffsetValue", address, address, var,
                         bytesAfterDisplacement)
    /\ idleMem

\* ReadOffsetValue(address, var, bytesAfterDisplacement) at the address of
\* the last write
ReadOffsetValue(bytesAfterDisplacement) ==
    /\ patched.status = "written"
    /\ patched' = Loaded("ReadOffsetValue", bytesAfterDisplacement)
    /\ idleMem

\* InjectHook(address, hook): WriteOffsetValue((intptr_t)address + 1, hook)
InjectHook(address, hook) ==
    /\ patched' = Stored("InjectHook", address, Plus(address, 1), hook, 0)
    /\ idleMem

\* ReadCall(address, func) on the instruction InjectHook wrote to:
\* ReadOffsetValue((intptr_t)address + 1, func)
ReadCall ==
    /\ patched.status = "written" /\ patched.call = "InjectHook"
    /\ patched' = Loaded("ReadCall", 0)
    /\ idleMem

-----------------------------------------------------------------------------
(* Idle values of the components a specification does not exercise *)

IdleComp ==
    /\ cTokens = <<>> /\ cState = "idle" /\ cBytes = <<>> /\ cMask = <<>>
    /\ cBuf = <<>> /\ cMatches = <<>>
IdlePat ==
    /\ mem = <<>> /\ hints = <<>> /\ pat = <<>> /\ ret = NoRet
    /\ build = [USE_HINTS |-> FALSE, CAN_SERIALIZE_HINTS |-> FALSE,
                NDEBUG |-> FALSE, ENABLE_EXCEPTIONS |-> FALSE]
IdleProt ==
    /\ image = <<>> /\ pages = <<>> /\ guards = <<>> /\ pages0 = <<>>
    /\ everGuard = FALSE
IdleTramp ==
    /\ regions = <<>> /\ blocks = <<>> /\ req = NoReq /\ slot = NoSlot
IdleMem == patched = <<>>

-----------------------------------------------------------------------------
(* SpecCompile: TransformPattern on signature strings, and a scan of the   *)
(* compiled pattern over a 100-byte segment that holds 55 8B EC 90 83 at   *)
(* offset 10 and one filler byte everywhere else.                          *)

ScenarioBytes == <<85, 139, 236, 144, 131>>      \* 55 8B EC 90 83
ScenarioFill  == {0, 131, 204}                   \* 00, 83, CC
ScenarioBuffer(fill) ==
    [a \in 0..99 |-> IF a \in 10..14 THEN ScenarioBytes[a - 9] ELSE fill]

idleComp == UNCHANGED <<patVars, protVars, trampVars, memVars>>

\* TransformPattern(pattern, m_bytes, m_mask) as Initialize calls it
Compile ==
    /\ cState = "pending"
    /\ LET t == TransformPattern(Join(cTokens))
       IN  cBytes' = t.data /\ cMask' = t.mask
    /\ cState' = "compiled"
    /\ UNCHANGED <<cTokens, cBuf, cMatches>>
    /\ idleComp

\* size() on the compiled pattern with the buffer as its only segment
ScanBuffer(fill) ==
    /\ cState = "compiled"
    /\ cBuf' = ScenarioBuffer(fill)
    /\ cMatches' = ScanSegments(cBytes, cMask, ScenarioBuffer(fill),
                                <<Segment(0, 100)>>, 1, <<>>, UINT32_MAX)
    /\ cState' = "scanned"
    /\ UNCHANGED <<cTokens, cBytes, cMask>>
    /\ idleComp

InitCompile ==
    /\ cTokens \in TokenLists
    /\ cState = "pending"
    /\ cBytes = <<>> /\ cMask = <<>> /\ cBuf = <<>> /\ cMatches = <<>>
    /\ IdlePat /\ IdleProt /\ IdleTramp /\ IdleMem

NextCompile ==
    \/ Compile
    \/ \E fill \in ScenarioFill : ScanBuffer(fill)

SpecCompile == InitCompile /\ [][NextCompile]_vars

-----------------------------------------------------------------------------
(* SpecScan: the scan itself.  One pattern object over one segment, in the *)
(* default build (no PATTERNS_USE_HINTS), resolved with and without limit. *)

DefaultBuild ==
    [USE_HINTS |-> FALSE, CAN_SERIALIZE_HINTS |-> FALSE,
     NDEBUG |-> FALSE, ENABLE_EXCEPTIONS |-> TRUE]

SingleSegments == {sl \in SegmentLists : Len(sl) = 1}

InitScan ==
    /\ mem \in Memories
    /\ hints = <<>>
    /\ pat = [p \in PatIds |-> NoPattern]
    /\ ret = NoRet
    /\ build = DefaultBuild
    /\ IdleComp /\ IdleProt /\ IdleTramp /\ IdleMem

NextScan ==
    \/ \E segs \in SingleSegments, ps \in PatSeqs :
          Construct(1, segs, SigOf(ps), "assert_err_policy", TRUE)
    \/ \E segs \in SingleSegments, ps \in PatSeqs :
          ConstructPretransformed(1, segs, BytesOf(ps), MaskOf(ps), "assert_err_policy")
    \/ \E n \in 0..MaxCount : CountHint(1, n)
    \/ Size(1)
    \/ Clear(1)

SpecScan == InitScan /\ [][NextScan]_vars

-----------------------------------------------------------------------------
(* SpecCalls: the calls that check, fail or index: count, get, get_one on  *)
(* one pattern object over one or two segments, in every build without     *)
(* the hint cache (assert on or off, exceptions on or off).                *)

\* the patterns "55" and "55 55"
CallPatterns == {ps \in PatSeqs : Len(ps) >= 1 /\ \A k \in 1..Len(ps) : ps[k] = <<85, 255>>}

\* one segment, or two segments in increasing address order
CallSegments == {sl \in SegmentLists : Len(sl) = 2 => sl[1][2] <= sl[2][1]}

InitCalls ==
    /\ mem \in Memories
    /\ hints = <<>>
    /\ pat = [p \in PatIds |-> NoPattern]
    /\ ret = NoRet
    /\ build \in {b \in Builds : ~b.USE_HINTS /\ ~b.CAN_SERIALIZE_HINTS}
    /\ IdleComp /\ IdleProt /\ IdleTramp /\ IdleMem

NextCalls ==
    \/ \E segs \in CallSegments, ps \in CallPatterns, pol \in Policies :
          Construct(1, segs, SigOf(ps), pol, TRUE)
    \/ \E n \in 0..MaxCount : Count(1, n)
    \/ \E n \in 0..MaxCount : CountHint(1, n)
    \/ Size(1)
    \/ \E i \in 0..MaxCount : Get(1, i)
    \/ GetOne(1)
    \/ Clear(1)

SpecCalls == InitCalls /\ [][NextCalls]_vars

-----------------------------------------------------------------------------
(* SpecHints: the builds with PATTERNS_USE_HINTS, with and without         *)
(* PATTERNS_CAN_SERIALIZE_HINTS.  Pattern objects of two signatures are    *)
(* built, resolved, cleared and destroyed one after the other while the    *)
(* process-wide hint cache lives on and memory is patched.                 *)

HintBuilds ==
    {b \in Builds : b.USE_HINTS /\ ~b.NDEBUG /\ b.ENABLE_EXCEPTIONS}

HintAddresses == 0..(HintMemLen - 1)
HintMemories  == [HintAddresses -> MemBytes]

\* the signatures "55" and "55 55"
HintSigs == {<<"5","5">>, <<"5","5"," ","5","5">>}

\* the whole memory, its first byte alone, the rest alone, and both in order
HintSegments ==
    { <<Segment(0, HintMemLen)>>, <<Segment(0, 1)>>, <<Segment(1, HintMemLen)>>,
      <<Segment(0, 1), Segment(1, HintMemLen)>> }

\* Memory::Patch(address, value) with a byte value
Patch(address, value) ==
    /\ Running
    /\ mem[address] # value
    /\ mem' = [mem EXCEPT ![address] = value]
    /\ ret' = NoRet
    /\ UNCHANGED <<hints, pat, build>>
    /\ idlePat

\* basic_pattern::hint(hash, address), which only the build with
\* PATTERNS_CAN_SERIALIZE_HINTS has
Hint(hash, address) ==
    /\ Running
    /\ build.USE_HINTS /\ build.CAN_SERIALIZE_HINTS
    /\ hints' = IF \E k \in 1..Len(hints) : hints[k] = <<hash, address>>
                THEN hints
                ELSE Append(hints, <<hash, address>>)
    /\ ret' = NoRet
    /\ UNCHANGED <<mem, pat, build>>
    /\ idlePat

\* the model stops adding to the hint cache once it holds MaxHints entries
HintRoom(p, maxCount) == Len(HintsAfter(pat[p], maxCount)) <= MaxHints

InitHints ==
    /\ mem \in HintMemories
    /\ hints = <<>>
    /\ pat = [p \in PatIds |-> NoPattern]
    /\ ret = NoRet
    /\ build \in HintBuilds
    /\ IdleComp /\ IdleProt /\ IdleTramp /\ IdleMem

NextHints ==
    \/ \E segs \in HintSegments, sig \in HintSigs, inMain \in BOOLEAN :
          Construct(1, segs, sig, "assert_err_policy", inMain)
    \/ Destroy(1)
    \/ \E n \in 1..MaxCount : HintRoom(1, n) /\ CountHint(1, n)
    \/ HintRoom(1, UINT32_MAX) /\ Size(1)
    \/ Clear(1)
    \/ \E a \in HintAddresses, b \in MemBytes : Patch(a, b)
    \/ \E sig \in HintSigs, a \in HintAddresses :
          Len(hints) < MaxHints /\ Hint(fnv_1(sig), a)

SpecHints == InitHints /\ [][NextHints]_vars

-----------------------------------------------------------------------------
(* SpecSameMemory: the builds with the hint cache while nothing writes to  *)
(* memory: pattern objects follow one another over the same bytes.         *)

NextSameMemory ==
    \/ \E segs \in HintSegments, sig \in HintSigs, inMain \in BOOLEAN :
          Construct(1, segs, sig, "assert_err_policy", inMain)
    \/ Destroy(1)
    \/ \E n \in 1..MaxCount : HintRoom(1, n) /\ CountHint(1, n)
    \/ HintRoom(1, UINT32_MAX) /\ Size(1)
    \/ Clear(1)
    \/ \E sig \in HintSigs, a \in HintAddresses :
          Len(hints) < MaxHints /\ Hint(fnv_1(sig), a)

SpecSameMemory == InitHints /\ [][NextSameMemory]_vars

-----------------------------------------------------------------------------
(* SpecProt: guards of every kind are created, moved and destroyed in any  *)
(* order over one module image whose pages have any mix of attributes.     *)

PageKinds ==
    { [State |-> "MEM_COMMIT", Type |-> "MEM_IMAGE", Protect |-> "PAGE_EXECUTE_READ"],
      [State |-> "MEM_COMMIT", Type |-> "MEM_IMAGE", Protect |-> "PAGE_READONLY"],
      [State |-> "MEM_COMMIT", Type |-> "MEM_IMAGE", Protect |-> "PAGE_READWRITE"],
      [State |-> "MEM_COMMIT", Type |-> "MEM_PRIVATE", Protect |-> "PAGE_READONLY"],
      [State |-> "MEM_RESERVE", Type |-> "MEM_IMAGE", Protect |-> "0"] }

SectionHeader(Name, VirtualAddress, VirtualSize) ==
    [Name |-> Name, VirtualAddress |-> VirtualAddress, VirtualSize |-> VirtualSize]

\* one section off the page boundary and no .rdata; two sections; two
\* sections of one name, the second running over the end of the address space
SectionTables ==
    { <<SectionHeader(".text", PageSize + 1, PageSize + 1)>>,
      <<SectionHeader(".text", PageSize, PageSize),
        SectionHeader(".rdata", 2 * PageSize, 2 * PageSize)>>,
      <<SectionHeader(".text", 0, PageSize),
        SectionHeader(".text", AddressLimit - PageSize, 2 * PageSize)>> }

SectionNames == {".text", ".rdata"}
Denials == {{}} \cup {{p} : p \in Pages}

InitProt ==
    /\ image \in {[sections |-> t, SizeOfImage |-> AddressLimit, ranges |-> FALSE] :
                      t \in SectionTables}
    /\ pages \in [Pages -> PageKinds]
    /\ pages0 = pages
    /\ guards = [g \in Guards |-> NoGuard]
    /\ everGuard = FALSE
    /\ IdleComp /\ IdlePat /\ IdleTramp /\ IdleMem

NextProt ==
    \/ \E g \in Guards, name \in SectionNames, denied \in Denials :
          Section(g, name, denied)
    \/ \E g \in Guards, denied \in Denials : FullModule(g, denied)
    \/ \E g \in Guards, name \in SectionNames, denied \in Denials :
          SectionOrFullModule(g, name, denied)
    \/ \E g \in Guards : DestroyGuard(g)
    \/ \E g \in Guards, h \in Guards : MoveAssign(g, h)

SpecProt == InitProt /\ [][NextProt]_vars

\* SpecRanges: the same guards, each with the history of its range
InitRanges ==
    /\ image \in {[sections |-> t, SizeOfImage |-> AddressLimit, ranges |-> TRUE] :
                      t \in SectionTables}
    /\ pages \in [Pages -> PageKinds]
    /\ pages0 = pages
    /\ guards = [g \in Guards |-> NoGuard]
    /\ everGuard = FALSE
    /\ IdleComp /\ IdlePat /\ IdleTramp /\ IdleMem

SpecRanges == InitRanges /\ [][NextProt]_vars

-----------------------------------------------------------------------------
(* SpecTramp: trampolines are requested for targets low and high in the    *)
(* address space over memory maps that leave free space at the start, the  *)
(* middle or the end of the 2 GiB window, and slots are taken from the     *)
(* block each request returned.                                            *)

\* the granules where one region may end and the next begin
Marks == <<0, 2, 32768, 32769, 32770, 65537, 65538, 65540>>

RECURSIVE MapFrom(_, _, _)
\* the memory map of a choice of states, neighbouring free space merged
MapFrom(states, k, regs) ==
    IF k > Len(states) THEN regs
    ELSE LET size == Marks[k + 1] - Marks[k]
             last == IF regs = <<>> THEN Region(0, 0, "none") ELSE regs[Len(regs)]
         IN  IF states[k] = "MEM_FREE" /\ last.State = "MEM_FREE"
             THEN MapFrom(states, k + 1,
                          [regs EXCEPT ![Len(regs)].Size = last.Size + size])
             ELSE MapFrom(states, k + 1,
                          Append(regs, Region(Marks[k], size, states[k])))

\* the first region holds the null page and the low target
MemoryMaps ==
    { MapFrom(st, 1, <<>>) :
        st \in {f \in [1..(Len(Marks) - 1) -> {"MEM_FREE", "MEM_COMMIT"}] :
                   f[1] = "MEM_COMMIT"} }

Targets ==
    {Address(1, 0), Address(1, 1), Address(1, 40), Address(32769, 0),
     Address(32769, 65535)}

InitTramp ==
    /\ regions \in MemoryMaps
    /\ blocks = <<>>
    /\ req = NoReq
    /\ slot = NoSlot
    /\ IdleComp /\ IdlePat /\ IdleProt /\ IdleMem

NextTramp ==
    \/ \E addr \in Targets : MakeTrampoline(addr, SINGLE_TRAMPOLINE_SIZE, 1)
    \/ \E addr \in Targets : MakeTrampoline(addr, 8, 16)
    \/ \E failure \in {"abort", "fault"} : Jump(failure)
    \/ \E failure \in {"abort", "nullptr"} : Pointer(8, 8, failure)
    \/ \E failure \in {"abort", "nullptr"} : Pointer(65500, 1, failure)

SpecTramp == InitTramp /\ [][NextTramp]_vars

-----------------------------------------------------------------------------
(* SpecOffsets: displacements are written and read back in both builds,    *)
(* between addresses on either side of the 2 GiB distance.                 *)

PatchAddresses == {Address(1, 0), Address(1, 11), Address(32769, 0)}
PatchTargets ==
    {Address(1, 3), Address(1, 4), Address(1, 5), Address(1, 100),
     Address(32769, 3), Address(32769, 4), Address(32769, 5)}
TrailingBytes == {0, 1}

InitOffsets ==
    /\ patched \in {NoPatch(win64) : win64 \in BOOLEAN}
    /\ IdleComp /\ IdlePat /\ IdleProt /\ IdleTramp

NextOffsets ==
    \/ \E address \in PatchAddresses, var \in PatchTargets, k \in TrailingBytes :
          WriteOffsetValue(address, var, k)
    \/ \E k \in TrailingBytes : ReadOffsetValue(k)
    \/ \E address \in PatchAddresses, hook \in PatchTargets :
          InjectHook(address, hook)
    \/ ReadCall

SpecOffsets == InitOffsets /\ [][NextOffsets]_vars

-----------------------------------------------------------------------------
(* Claims about the scan *)

NoWildcards(mask) == \A k \in 1..Len(mask) : mask[k] = 255

RECURSIVE NaiveSearch(_, _, _, _)
\* the reference: every offset a in [first, second - len], in increasing
\* order, at which the bytes of the pattern equal the bytes of memory
NaiveSearch(bytes, m, first, second) ==
    IF first + Len(bytes) > second THEN <<>>
    ELSE (IF \A k \in 1..Len(bytes) : m[first + k - 1] = bytes[k] THEN <<first>> ELSE <<>>)
         \o NaiveSearch(bytes, m, first + 1, second)

\* a pattern object whose match set came from a scan without match limit
\* (size() / get()) over a single segment
ScannedWhole(o) ==
    /\ o.live /\ o.m_matched /\ o.by = "scan" /\ o.limit = UINT32_MAX
    /\ Len(o.m_scanSegments) = 1

\* C4: for a pattern without wildcards scanned over one segment with no match
\* limit, the ordered matches are exactly the offsets a naive byte-for-byte
\* substring search finds.
C4_ScanEqualsNaiveSearch ==
    \A p \in PatIds :
        (ScannedWhole(pat[p]) /\ NoWildcards(pat[p].m_mask)) =>
            pat[p].m_matches =
                NaiveSearch(pat[p].m_bytes, mem, pat[p].m_scanSegments[1][1],
                            pat[p].m_scanSegments[1][2])

\* C4 witness: a two-byte exact pattern found at two overlapping offsets of
\* a segment that also holds a position where it does not occur
C4_Witness ==
    \E p \in PatIds :
        /\ ScannedWhole(pat[p]) /\ NoWildcards(pat[p].m_mask)
        /\ Len(pat[p].m_bytes) = 2
        /\ Len(pat[p].m_matches) = 2
        /\ pat[p].m_matches[2] = pat[p].m_matches[1] + 1
        /\ pat[p].m_scanSegments[1][2] - pat[p].m_scanSegments[1][1] = MemLen

RECURSIVE MaskedSearch(_, _, _, _, _)
\* the reference: every offset a in [first, second - len], in increasing
\* order, at which the masked comparison holds
MaskedSearch(bytes, mask, m, first, second) ==
    IF first + Len(mask) > second THEN <<>>
    ELSE (IF MatchesAt(bytes, mask, m, first) THEN <<first>> ELSE <<>>)
         \o MaskedSearch(bytes, mask, m, first + 1, second)

\* from a window at i that does not match, the scan moves forward, and no
\* window it passes over matches
ShiftSkipsNoMatch(bytes, mask, m, i, second) ==
    LET j == CompareBack(bytes, mask, m, i, Len(mask) - 1)
    IN  j >= 0 =>
           /\ Shift(bytes, mask, m, i, j) >= 1
           /\ \A a \in (i + 1)..(i + Shift(bytes, mask, m, i, j) - 1) :
                  a + Len(mask) <= second => ~MatchesAt(bytes, mask, m, a)

Occurrences(o) ==
    Cardinality({a \in 0..Cardinality(DOMAIN mem) :
        \E k \in 1..Len(o.m_scanSegments) :
            /\ o.m_scanSegments[k][1] <= a
            /\ a + Len(o.m_mask) <= o.m_scanSegments[k][2]
            /\ MatchesAt(o.m_bytes, o.m_mask, mem, a)})

\* the match set of object o came from a scan with limit n
ScannedWithLimit(o, n) == o.live /\ o.m_matched /\ o.by = "scan" /\ o.limit = n

\* C6: a scan started with limit n >= 1 leaves at most n addresses in the
\* match set (so nothing after the n-th match, in its segment or a later
\* one, is added).
C6_LimitStopsScan ==
    \A p \in PatIds : \A n \in 1..MaxCount :
        ScannedWithLimit(pat[p], n) => Len(pat[p].m_matches) <= n

\* C7: count(n) on a pending pattern passes its policy check exactly when
\* the pattern matches at exactly n positions of the scan segments.
C7_CountIsExact ==
    (ret.op = "count" /\ ScannedWithLimit(pat[ret.p], ret.arg)) =>
        (ret.ok <=> Occurrences(pat[ret.p]) = ret.arg)

\* C8: a count mismatch is fatal under assert_err_policy and a thrown
\* txn_exception under exception_err_policy, whatever the build; and
\* get_one() on a pattern with no match hands no match to the caller.
C8_MismatchDependsOnPolicyOnly ==
    /\ (ret.op \in {"count", "get_one"} /\ ~ret.ok) =>
          /\ pat[ret.p].err_policy = "assert_err_policy" =>
                (ret.status = "abort" /\ ret.value = <<>>)
          /\ pat[ret.p].err_policy = "exception_err_policy" => ret.status = "thrown"
    /\ (ret.op = "get_one" /\ pat[ret.p].m_matches = <<>>) =>
          (ret.value = <<>> /\ ~ret.ub)

\* C9: get(i) with i at or beyond the number of matches fails without
\* returning a match and without reading past the end of the match sequence.
C9_GetOutOfRangeFails ==
    (ret.op = "get" /\ ret.arg >= Len(pat[ret.p].m_matches)) =>
        (ret.status \in {"abort", "thrown"} /\ ret.value = <<>> /\ ~ret.ub)

-----------------------------------------------------------------------------
(* Claims about the hint cache *)

\* C3: every address of a resolved match set matched the pattern under its
\* mask when the set was resolved, whether a scan or the hint cache filled it.
C3_ResolvedMatchesSatisfyPattern ==
    \A p \in PatIds : (pat[p].live /\ pat[p].m_matched) => pat[p].sound

\* C10: when hints exist for the fingerprint and none of them matches any
\* more, no hinted address enters the match set, the first use scans, and
\* the match set is the one a scan with an empty hint cache produces.
C10_StaleHintsFallBackToScan ==
    \A p \in PatIds :
        (pat[p].live /\ pat[p].stale) =>
            /\ pat[p].by # "hints"
            /\ pat[p].m_matched =>
                  (pat[p].by = "scan" /\ pat[p].m_matches = pat[p].ref)

\* the hints recorded for the fingerprint of object o whose bytes in memory
\* m match the pattern, in the order of the cache
VerifiedHints(o, m) ==
    SelectSeq(HintRange(o.m_hash), LAMBDA a : FoundAt(o.m_bytes, o.m_mask, m, a))

\* object p comes into being in this step
Constructed(p) == ~pat[p].live /\ pat'[p].live

\* object p was resolved from hints and this step neither clears nor destroys it
KeptFromHints(p) ==
    /\ pat[p].live /\ pat[p].by = "hints"
    /\ pat'[p].live /\ pat'[p].m_matched

\* C11: when at least one hint recorded for the fingerprint verifies at
\* construction, the new object is resolved at once with exactly the
\* verified hint addresses; and an object resolved from hints keeps its
\* match set through every later call short of clear(): nothing scans and
\* nothing is added.
C11_HintsResolveAtOnce ==
    [][\A p \in PatIds :
          /\ (Constructed(p) /\ VerifiedHints(pat'[p], mem) # <<>>) =>
                /\ pat'[p].m_matched
                /\ pat'[p].m_matches = VerifiedHints(pat'[p], mem)
          /\ KeptFromHints(p) => pat'[p] = pat[p]]_vars

IsPrefix(a, b) == Len(a) <= Len(b) /\ SubSeq(b, 1, Len(a)) = a
Distinct(q) == \A i \in 1..Len(q) : \A j \in 1..Len(q) : q[i] = q[j] => i = j

\* C12: the hint cache never holds a (fingerprint, address) pair twice and
\* never loses an entry, whatever is constructed, scanned, cleared or
\* hinted; so an object resolved from hints has no duplicate matches.
C12_HintsInsertedOnce ==
    [][/\ Distinct(hints')
       /\ IsPrefix(hints, hints')
       /\ \A p \in PatIds : pat'[p].by = "hints" => Distinct(pat'[p].m_matches)]_vars

\* what size() reports for object o when the hint cache is disabled and
\* size() is the first call on it: the scan of its segments without limit
ScanWithoutHints(o) ==
    ScanSegments(o.m_bytes, o.m_mask, mem, o.m_scanSegments, 1, <<>>, UINT32_MAX)

\* C13: over unchanged memory, size() on an object whose first call it is
\* reports the match set it reports with the hint cache disabled.  A call
\* on an object resolved from hints changes nothing, so every state of such
\* an object is also reached with size() as its first call.
C13_HintsOnlyAccelerate ==
    \A p \in PatIds :
        (ret.op = "size" /\ ret.p = p /\ pat[p].live
            /\ (pat[p].by = "hints" \/ pat[p].limit = UINT32_MAX)) =>
            /\ pat[p].m_matches = ScanWithoutHints(pat[p])
            /\ ret.value = <<Len(ScanWithoutHints(pat[p]))>>

-----------------------------------------------------------------------------
(* Claims about the life of the match set *)

Pending(o) == o.live /\ ~o.m_matched
Resolved(o) == o.live /\ o.m_matched

\* the scan of the object's segments from an empty match set, up to limit n
ScanFromEmpty(o, n) ==
    ScanSegments(o.m_bytes, o.m_mask, mem, o.m_scanSegments, 1, <<>>, n)

\* the calls that hand something to the caller and go through EnsureMatches
Accessors == {"count", "size", "get", "get_one"}

\* C14: the match set is computed lazily and at most once.  Construction
\* scans no segment; a pending object has an empty match set; a call on a
\* pending object leaves it as it is (clear) or resolves it with the scan of
\* its segments; every accessor leaves the object resolved; a resolved
\* object that stays resolved keeps its match set, whatever limit the call
\* had; and a resolved object that becomes pending has an empty match set.
C14_MatchSetComputedOnce ==
    [][\A p \in PatIds :
          /\ Constructed(p) => pat'[p].by # "scan"
          /\ Pending(pat'[p]) => pat'[p].m_matches = <<>>
          /\ (Pending(pat[p]) /\ pat'[p].live) =>
                \/ pat'[p] = pat[p]
                \/ /\ Resolved(pat'[p]) /\ pat'[p].by = "scan"
                   /\ pat'[p].m_matches = ScanFromEmpty(pat[p], pat'[p].limit)
          /\ (ret'.op \in Accessors /\ ret'.p = p) => Resolved(pat'[p])
          /\ (Resolved(pat[p]) /\ Resolved(pat'[p])) =>
                pat'[p].m_matches = pat[p].m_matches]_vars

\* a resolved object that an earlier call scanned with limit 1, after a
\* size() that reported that one match although its segments hold more
C14_Witness ==
    \E p \in PatIds :
        /\ ScannedWithLimit(pat[p], 1)
        /\ ret.op = "size" /\ ret.p = p /\ ret.value = <<1>>
        /\ Len(ScanFromEmpty(pat[p], UINT32_MAX)) >= 2

-----------------------------------------------------------------------------
(* Claims about signature strings *)

\* the token list with every "??" token spelled "?"
SingleQuestion(toks) ==
    [k \in 1..Len(toks) |-> IF toks[k] = <<"?","?">> THEN <<"?">> ELSE toks[k]]

\* C5: a "??" token compiles to one wildcard byte like a lone "?", so
\* "55 8B EC ?? 83" is the 5-byte pattern of "55 8B EC ? 83" and its scan
\* over the segment holding 55 8B EC 90 83 at offset 10 only yields exactly
\* the match at base+10.
C5_DoubleQuestionIsOneWildcard ==
    /\ cState # "pending" =>
          LET t == TransformPattern(Join(SingleQuestion(cTokens)))
          IN  cBytes = t.data /\ cMask = t.mask
    /\ (cState = "scanned" /\ cTokens = SigDoubleQ) =>
          (Len(cBytes) = 5 /\ cMatches = <<10>>)

\* C21: every compiled signature string has as many mask bytes as pattern
\* bytes and at least one of them, the empty string and the strings of
\* unrecognised characters included.
C21_PatternNotEmpty ==
    cState # "pending" => (Len(cBytes) = Len(cMask) /\ Len(cBytes) > 0)

\* a two-hex-digit pair, "?" or "??"
WellFormed(tok) ==
    \/ tok \in {<<"?">>, <<"?","?">>}
    \/ Len(tok) = 2 /\ IsHexDigit(tok[1]) /\ IsHexDigit(tok[2])

\* C22: the compiled (bytes, mask) of a signature string is that of the
\* string with every malformed token removed: a lone hex digit or an
\* unrecognised character contributes nothing and leaves its neighbours alone.
C22_MalformedTokensSkipped ==
    cState # "pending" =>
        LET t == TransformPattern(Join(SelectSeq(cTokens, WellFormed)))
        IN  cBytes = t.data /\ cMask = t.mask

\* the window of the pattern of object o at address a lies in one of its
\* scan segments
InOwnSegment(o, a) ==
    \E k \in 1..Len(o.m_scanSegments) :
        /\ o.m_scanSegments[k][1] <= a
        /\ a + Len(o.m_mask) <= o.m_scanSegments[k][2]

\* C29: every address of a resolved match set lies in one of the object's
\* own scan segments, the whole window [a, a + len) in a single segment,
\* whether the set came from a scan or from the hint cache.
C29_MatchesInOwnSegments ==
    \A p \in PatIds :
        Resolved(pat[p]) =>
            \A k \in 1..Len(pat[p].m_matches) :
                InOwnSegment(pat[p], pat[p].m_matches[k])

-----------------------------------------------------------------------------
(* Claims about ScopedUnprotect *)

\* C2: once every guard has been destroyed, every page has exactly the
\* protection (and state and type) it had before the first guard was
\* created, whatever kinds of guards were created over overlapping ranges,
\* in whatever order they were destroyed, and however many regions each
\* of them changed.
C2_ProtectionRestored ==
    AllDestroyed => pages = pages0

\* a guard that changed several regions was created while another guard
\* held regions, and every guard has been destroyed since
C2_Witness ==
    AllDestroyed /\ everGuard

\* a committed image page: the pages UnprotectRange makes writable
ImagePage(pg) == pg.State = "MEM_COMMIT" /\ pg.Type = "MEM_IMAGE"

\* every committed image page of the range guard g was made for is writable
Covers(gs, pgs, g) ==
    \A p \in gs[g].range : ImagePage(pgs[p]) => pgs[p].Protect \in Writable

\* C15: a guard that stays alive and has every committed image page of its
\* section or module writable still has them writable after any step:
\* another guard over an overlapping range being created, move-assigned or
\* destroyed, or a guard of the same range being moved into it.
C15_WritableWhileGuarded ==
    [][\A g \in Guards :
          (/\ guards[g].live /\ Covers(guards, pages, g)
           /\ guards'[g].live /\ guards'[g].range = guards[g].range) =>
              Covers(guards', pages', g)]_vars

\* a factory has just returned guard g
CreatedGuard(g) == ~guards[g].live /\ guards'[g].live

\* UnprotectRange changes this page: committed, image-backed and in none of
\* the writable classes
Changeable(pg) ==
    /\ ImagePage(pg)
    /\ pg.Protect \notin {"PAGE_EXECUTE_READWRITE", "PAGE_EXECUTE_WRITECOPY",
                          "PAGE_READWRITE", "PAGE_WRITECOPY"}

WritableAnalogue(prot) ==
    IF prot \in {"PAGE_EXECUTE", "PAGE_EXECUTE_READ"}
    THEN "PAGE_EXECUTE_READWRITE" ELSE "PAGE_READWRITE"

\* the records of a list that cover page p
RecordsOf(list, p) ==
    {i \in 1..Len(list) : p \in PagesIn(list[i].Address, list[i].Size)}

RestoredBy(list, pgs) ==
    [p \in Pages |->
        IF RecordsOf(list, p) = {} THEN pgs[p]
        ELSE [pgs[p] EXCEPT !.Protect =
                 list[CHOOSE i \in RecordsOf(list, p) : TRUE].Protect]]

\* no page that a record of guard g covers is covered by another record,
\* of g or of another guard
RecordsDisjoint(gs, g) ==
    \A i \in 1..Len(gs[g].m_regionsToReprotect) :
        \A p \in PagesIn(gs[g].m_regionsToReprotect[i].Address,
                         gs[g].m_regionsToReprotect[i].Size) :
            \A h \in Guards :
                \A j \in RecordsOf(gs[h].m_regionsToReprotect, p) : h = g /\ j = i

\* the list holds its records in reverse order of acquisition:
\* UnprotectRange acquires them by increasing address
LastAcquiredFirst(list) ==
    \A i \in 1..(Len(list) - 1) : list[i].Address > list[i + 1].Address

\* C24: every record is applied exactly once.  A new guard holds its
\* records last acquired first, and no page they cover is covered by another
\* record; a destroyed guard applies all of its records and keeps none; a
\* move assignment g = std::move(h) applies the records g held, gives g the
\* list of h as it was and leaves h without records; no other guard changes.
C24_RecordsAppliedOnce ==
    [][/\ \A g \in Guards :
             /\ CreatedGuard(g) =>
                   /\ LastAcquiredFirst(guards'[g].m_regionsToReprotect)
                   /\ RecordsDisjoint(guards', g)
             /\ (guards[g].live /\ ~guards'[g].live) =>
                   /\ pages' = RestoredBy(guards[g].m_regionsToReprotect, pages)
                   /\ guards'[g].m_regionsToReprotect = <<>>
                   /\ \A h \in Guards \ {g} : guards'[h] = guards[h]
       /\ ((\A g \in Guards : guards'[g].live = guards[g].live)
              /\ guards' # guards) =>
             \E g \in Guards, h \in Guards :
                 /\ g # h
                 /\ guards'[h].m_regionsToReprotect = <<>>
                 /\ guards'[g].m_regionsToReprotect =
                       guards[h].m_regionsToReprotect
                 /\ \A k \in Guards \ {g, h} : guards'[k] = guards[k]
                 /\ pages' = RestoredBy(guards[g].m_regionsToReprotect, pages)]_vars

\* two guards held records at once, one of them several; one of the two
\* has been destroyed since and its pages are protected again, the other is
\* alive and holds its records
C24_Witness ==
    /\ everGuard
    /\ \E g \in Guards :
          /\ guards[g].live /\ guards[g].m_regionsToReprotect # <<>>
          /\ \A h \in Guards \ {g} : ~guards[h].live
    /\ \E p \in Pages : Changeable(pages[p])

\* C16: a factory never returns a guard that covers only part of its range:
\* when the guard is returned every committed image page of the section or
\* module is writable (a VirtualQuery or VirtualProtect that failed ended the
\* program instead).
C16_FailurePropagated ==
    [][\A g \in Guards :
          (~guards[g].live /\ guards'[g].live) => Covers(guards', pages', g)]_vars

\* C28: a guard changes the protection only of pages of the range it was
\* asked to unprotect: when a factory returns, every page outside the
\* sections (or the module) UnprotectRange was called for is as it was.
C28_OnlyRequestedRangeChanged ==
    [][\A g \in Guards :
          CreatedGuard(g) =>
             \A p \in Pages \ guards'[g].range : pages'[p] = pages[p]]_vars

-----------------------------------------------------------------------------
(* Claims about Trampoline *)

\* C1: every slot address that Jump or Pointer returns on the block that
\* MakeTrampoline(target) returned differs from target by a signed amount
\* within [-2^31, 2^31-1]: the first slot of a newly allocated block, a slot
\* that begins after alignment padding, and every other slot.
C1_SlotsReachTarget ==
    (req.status = "ok" /\ slot.status = "ok")
        => IsAddressFeasible(slot.address, req.addr)

\* a MakeTrampoline call has just returned, or failed
Requested == req'.n = req.n + 1

\* C17: a MakeTrampoline call that finds no feasible block and no region to
\* allocate ends the program; it returns nothing, leaves the list of blocks
\* and the memory map as they were.  (The fault of the header write at
\* address 0 is counted as the fatal failure.)
C17_AllocationFailureIsFatal ==
    [][(Requested /\ req'.status # "ok") =>
          /\ req'.status = "fault"
          /\ blocks' = blocks /\ regions' = regions]_vars

\* C18: a Jump, Pointer or RawSpace on a block whose remaining space cannot
\* hold the slot and its padding ends the program; no slot address is
\* returned and the block's free pointer and remaining space stay as they
\* were.  (The fault of Jump's write through the null pointer is counted as
\* the fatal failure.)
C18_OutOfSpaceIsFatal ==
    [][(slot'.n = slot.n + 1 /\ slot'.status # "ok") =>
          /\ slot'.status \in {"abort", "fault"}
          /\ blocks' = blocks]_vars

\* the slot GetNewSpace would hand out on block t: its first and last byte
SlotStart(t, align) ==
    Plus(t.m_pageMemory, AlignUp(t.m_pageMemory.lo, align) - t.m_pageMemory.lo)
SlotEnd(t, size, align) == Plus(SlotStart(t, align), size - 1)

\* MakeTrampoline has just returned a block that was in the list already
Reused == req.status = "ok" /\ ~req.fresh /\ slot.status = "none"

\* C19: when FeasibleForAddresss accepted a block for a request, the whole
\* slot of the request, from its aligned start to its last byte, lies in the
\* signed 32-bit window of the target.
C19_WholeSlotInWindow ==
    Reused =>
        /\ IsAddressFeasible(SlotStart(blocks[req.block], req.align), req.addr)
        /\ IsAddressFeasible(SlotEnd(blocks[req.block], req.size, req.align),
                             req.addr)

\* block t is within the window of addr and has room for the request
WithinWindow(t, addr) == IsAddressFeasible(t.m_pageMemory, addr)
HasSpace(t, size, align) ==
    t.m_spaceLeft >= Minus(SlotStart(t, align), t.m_pageMemory).lo + size
Holds(t, r) == WithinWindow(t, r.addr) /\ HasSpace(t, r.size, r.align)

Padding(t, align) == Minus(SlotStart(t, align), t.m_pageMemory).lo

\* the last MakeTrampoline returned a block and nothing was taken from it since
Returned == req.status = "ok" /\ slot.status = "none"

\* C26: when MakeTrampoline(addr, size, align) returned a block, reused or
\* new, GetNewSpace(size, align) on that block succeeds: a block that
\* FeasibleForAddresss accepts has room for the padding of std::align and the
\* size, and the usable size of a new block covers both.
C26_ReturnedBlockHoldsRequest ==
    /\ Returned =>
          /\ GetNewSpace(blocks[req.block], req.size, req.align).space # nullptr
          /\ req.fresh =>
                blocks[1].m_spaceLeft >= Padding(blocks[1], req.align) + req.size
    /\ req.n > 0 =>
          \A i \in 1..Len(blocks) :
              FeasibleForAddresss(blocks[i], req.addr, req.size, req.align) =>
                 /\ blocks[i].m_spaceLeft >= Padding(blocks[i], req.align) + req.size
                 /\ GetNewSpace(blocks[i], req.size, req.align).space # nullptr

\* C26 witness: a request with alignment 16 was given a block of the list
\* whose free pointer is not aligned, so that std::align has bytes to skip
C26_Witness ==
    /\ Returned /\ ~req.fresh
    /\ req.align = 16
    /\ Padding(blocks[req.block], req.align) > 0

\* the fixed ends of block t: the end of its memory, and the end of its
\* header (every block of these requests is one granule long)
BlockEnd(t) == Plus(t.m_pageMemory, t.m_spaceLeft)
HeaderEnd(t) == Address(BlockEnd(t).hi - 1, sizeofTrampoline)

\* the block a slot of the history was taken from
OwnerOf(s) == blocks[Len(blocks) - s.owner]

\* slot s ends at or before the start of slot u
Before(s, u) == LessEq(Plus(s.address, s.size), u.address)

\* the free pointer plus the space left is the end of the block's memory;
\* every slot handed out is aligned as requested and lies between the end of
\* the header and the end of the block, below the free pointer; no two slots
\* handed out overlap
SlotsWithinBlock ==
    /\ \A i \in 1..Len(blocks) :
          /\ BlockEnd(blocks[i]).lo = 0
          /\ LessEq(HeaderEnd(blocks[i]), blocks[i].m_pageMemory)
    /\ \A s \in slot.taken :
          /\ s.address.lo % s.align = 0
          /\ LessEq(HeaderEnd(OwnerOf(s)), s.address)
          /\ LessEq(Plus(s.address, s.size), OwnerOf(s).m_pageMemory)
          /\ LessEq(Plus(s.address, s.size), BlockEnd(OwnerOf(s)))
    /\ \A s \in slot.taken, u \in slot.taken :
          s # u => (Before(s, u) \/ Before(u, s))

\* the list grows at its front only; a block keeps its end, its free
\* pointer never moves back and its space left never increases
BlockListOnlyGrows ==
    /\ Len(blocks') >= Len(blocks)
    /\ \A i \in 1..Len(blocks) :
          LET t == blocks[i]
              u == blocks'[i + Len(blocks') - Len(blocks)]
          IN  /\ BlockEnd(u) = BlockEnd(t)
              /\ u.m_spaceLeft <= t.m_spaceLeft
              /\ LessEq(t.m_pageMemory, u.m_pageMemory)

\* C27: over every sequence of MakeTrampoline, Jump and Pointer calls, the
\* free pointer plus the space left of each block is its fixed end; each
\* slot handed out is aligned as requested and lies between the end of the
\* header and the end of the block; no two slots overlap; and the block list
\* only grows: no block is unlinked and no space left increases.
C27_BumpAllocatorInvariants ==
    []SlotsWithinBlock /\ [][BlockListOnlyGrows]_vars

\* C27 witness: two slots were taken from one block, the second after
\* alignment padding
C27_Witness ==
    /\ \E s \in slot.taken, u \in slot.taken :
          /\ s.owner = u.owner
          /\ s.size = SINGLE_TRAMPOLINE_SIZE /\ u.align = 8
          /\ ~LessEq(u.address, Plus(s.address, s.size))

-----------------------------------------------------------------------------
(* Claims about relative displacements *)

FitsInt32(d) == LessEq(INT32_MIN, d) /\ LessEq(d, INT32_MAX)

\* the last write was read back by its counterpart, with the same number of
\* trailing bytes
RoundTrip ==
    /\ patched.status = "read"
    /\ \/ patched.call = "InjectHook" /\ patched.read = "ReadCall"
       \/ /\ patched.call = "WriteOffsetValue"
          /\ patched.read = "ReadOffsetValue" /\ patched.rk = patched.k

\* v - (a + 4 + k), and hook - (addr + 5), as the numbers the addresses are
Difference ==
    Minus(patched.var,
          Plus(patched.address,
               IF patched.call = "InjectHook" THEN 5 ELSE 4 + patched.k))

\* the read gave back the pointer that was written
ReturnsWritten ==
    intptr_t(patched.WIN64, patched.value) = intptr_t(patched.WIN64, patched.var)

\* C30 as stated: the read after the write returns v if and only if the
\* difference fits in a signed 32-bit value; outside that range the stored
\* displacement is the difference modulo 2^32 and the read yields another
\* address.
C30_RoundTripIffInRange ==
    RoundTrip =>
        /\ ReturnsWritten <=> FitsInt32(Difference)
        /\ patched.int32 = int32_t(Difference)

\* C30 as amended: in a 64-bit build the read returns v if and only if the
\* difference fits in a signed 32-bit value; in a 32-bit build it returns v
\* for every pair of addresses; in both the stored displacement is the
\* difference modulo 2^32.
C30_RoundTripByBuild ==
    RoundTrip =>
        /\ patched.WIN64 => (ReturnsWritten <=> FitsInt32(Difference))
        /\ ~patched.WIN64 => ReturnsWritten
        /\ patched.int32 = int32_t(Difference)

\* C30 witness: in a 64-bit build a hook 2^31 bytes past the end of the call
\* was injected and read back as another address
C30_Witness ==
    /\ RoundTrip /\ patched.WIN64 /\ patched.call = "InjectHook"
    /\ Difference = Address(32768, 0)
    /\ ~ReturnsWritten

=============================================================================
